---- MODULE Spec2Model ----
(***************************************************************************)
(* Looking Glass client audio engine (client/src/audio.c): the playback    *)
(* stream lifecycle, the coupling ring buffer, the device tick queue, the  *)
(* two clock trackers, the offset estimator and the record path.           *)
(*                                                                         *)
(* The program state is held in records named after the C structs.  Every  *)
(* C function is a pure operator from a "world" record (all program state) *)
(* and its inputs to the next world; the actions apply these operators.    *)
(* Spec runs every engine call of the stream and every device pull as one  *)
(* step; SpecControl runs the volume, mute and record calls around the     *)
(* life cycle; SpecConc runs the Spice thread and the device thread step   *)
(* by step, one step per access to the state they share.                   *)
(*                                                                         *)
(* Time is counted in clock units of 1/ClockHz second; nanotime() returns  *)
(* a whole number of units.  Doubles are fixed point with scale Q.         *)
(***************************************************************************)
EXTENDS Integers, Sequences, FiniteSets, TLC

VARIABLES
  audioDev,    \* audio.audioDev: the selected backend, or NoDev
  playback,    \* audio.playback (without deviceData and spiceData)
  deviceData,  \* audio.playback.deviceData (device thread)
  spiceData,   \* audio.playback.spiceData  (Spice thread)
  record,      \* audio.record and audio_recordStart's statics
  device,      \* the backend as the engine's callbacks leave it
  clock,       \* the last value nanotime() returned
  calls,       \* backend callbacks made by each thread's current/last call
  faults,      \* memory and contract faults that have happened so far
  irregular,   \* how many inputs so far were off the nominal schedule
  submitted,   \* the volume and the mute flag last given to the engine
  pc,          \* SpecConc: each thread's position
  local        \* SpecConc: each thread's locals

vars == <<audioDev, playback, deviceData, spiceData, record, device, clock,
          calls, faults, irregular, submitted, pc, local>>

(***************************************************************************)
(* Bounds of the model.                                                    *)
(***************************************************************************)
ClockHz    == 15   \* clock units per second; also the stream's sample rate
Q          == 1000 \* fixed-point scale of the doubles
MaxClock   == 6    \* nanotime() stays within 0..MaxClock
MaxDelta   == 5    \* largest advance of the clock between two readings
MaxPos     == 8    \* calls are made while the positions are below MaxPos
MaxStreams == 2    \* streams set up in one run
MaxRuns    == 2    \* src_process runs in one source period
MaxIrregular == 1  \* inputs off the nominal schedule in one run
MaxTime    == 9    \* SpecTiming: nanotime() stays within 0..MaxTime
MaxLate    == 3    \* SpecTiming: a call comes at most so long after its time
MaxStall   == 18   \* SpecDrain: the source stalls for so long, at most once
MaxSource  == 20   \* SpecDrain: the source delivers periods up to this time
MaxDrain   == 40   \* SpecDrain: nanotime() stays within 0..MaxDrain

(***************************************************************************)
(* Program constants.                                                      *)
(***************************************************************************)
INT64_MIN      == -2147483647  \* stands for the sentinel INT64_MIN
VOLUME_LEN     == 8            \* ARRAY_LENGTH(audio.playback.volume)
TIMING_LEN     == 16           \* slots of audio.playback.deviceTiming
SPICE_JITTER_MS == 13

STREAM_STATE_STOP  == "STOP"
STREAM_STATE_SETUP == "SETUP"
STREAM_STATE_RUN   == "RUN"
STREAM_STATE_DRAIN == "DRAIN"

STREAM_ACTIVE(state) ==
  state = STREAM_STATE_SETUP \/ state = STREAM_STATE_RUN

(***************************************************************************)
(* Inputs.                                                                 *)
(***************************************************************************)
Threads      == {"spice", "device"}
\* a backend: its name and which optional callbacks it has
NoDev        == [name |-> "NULL", volume |-> FALSE, mute |-> FALSE,
                 recordVolume |-> FALSE, recordMute |-> FALSE]
LG_AudioDevs == << [name |-> "full",  volume |-> TRUE,  mute |-> TRUE,
                    recordVolume |-> TRUE, recordMute |-> TRUE] >>
Channels     == {2}
Rates        == {ClockHz}
SpiceFrames  == {1, 2}      \* frames of one source period
DeviceFrames == {1, 2}      \* frames of one device pull
MaxPeriods   == {1, 2}      \* what setup() reports as deviceMaxPeriodFrames
VolumeInputs == { <<7>>, <<3, 4>>, <<5, 5, 5, 5, 5, 5, 5, 5, 9>> }

(***************************************************************************)
(* Arithmetic.                                                             *)
(***************************************************************************)
Abs(x) == IF x < 0 THEN -x ELSE x

Min(a, b) == IF a < b THEN a ELSE b

Max(a, b) == IF a > b THEN a ELSE b

\* round(n / d), halves away from zero, as C's round() and (ties apart) llrint()
RoundDiv(n, d) ==
  LET s == IF (n < 0) = (d < 0) THEN 1 ELSE -1
      a == Abs(n)
      b == Abs(d)
  IN  s * ((2 * a + b) \div (2 * b))

\* frames / sampleRate seconds, in clock units
PeriodSec(frames, sampleRate) == RoundDiv(frames * ClockHz, sampleRate)

\* omega = 2 pi bandwidth periodSec with bandwidth 0.05, scaled by Q
Omega(periodSec) == RoundDiv(314159 * periodSec, (1000000 \div Q) * ClockHz)

\* b = M_SQRT2 * omega, scaled by Q
LoopB(periodSec) == RoundDiv(14142 * Omega(periodSec), 10000)

\* c = omega * omega, scaled by Q
LoopC(periodSec) == RoundDiv(Omega(periodSec) * Omega(periodSec), Q)

\* fabs(error) > 0.2: an error of just 0.2 s is let through
SlewNeededAbove(e) == 5 * Abs(e) > ClockHz

\* fabs(error) >= 0.2 for an error of e clock units
SlewNeeded(e) == 5 * Abs(e) >= ClockHz

\* round(error * sampleRate) for an error of e clock units
SlewFrames(e, sampleRate) == RoundDiv(e * sampleRate, ClockHz)

(***************************************************************************)
(* The world: all program state as one record, and its initial value       *)
(* (static AudioState audio = { 0 }).                                      *)
(***************************************************************************)
World ==
  [ audioDev |-> audioDev, playback |-> playback, deviceData |-> deviceData,
    spiceData |-> spiceData, record |-> record, device |-> device,
    clock |-> clock, calls |-> calls, faults |-> faults ]

NullRing == [ptr |-> "null", count |-> 0, stream |-> 0]

\* q: the ticks waiting; pushed: the last two ticks appended since the queue
\* was made
NullQueue == [ptr |-> "null", q |-> <<>>, pushed |-> <<>>]

ZeroVolume == [i \in 1..VOLUME_LEN |-> 0]

InitPlayback ==
  [ state |-> STREAM_STATE_STOP, volumeChannels |-> 0, volume |-> ZeroVolume,
    mute |-> FALSE, channels |-> 0, sampleRate |-> 0, stride |-> 0,
    deviceMaxPeriodFrames |-> 0, buffer |-> NullRing,
    deviceTiming |-> NullQueue, timings |-> "null" ]

InitDeviceData ==
  [ periodFrames |-> 0, periodSec |-> 0, nextTime |-> 0, nextPosition |-> 0,
    b |-> 0, c |-> 0 ]

InitSpiceData ==
  [ framesIn |-> "null", framesOut |-> "null", framesOutSize |-> 0,
    periodFrames |-> 0, periodSec |-> 0, nextTime |-> 0, nextPosition |-> 0,
    b |-> 0, c |-> 0,
    devPeriodFrames |-> 0, devLastTime |-> 0, devNextTime |-> 0,
    devLastPosition |-> 0, devNextPosition |-> 0,
    offsetError |-> 0, offsetErrorIntegral |-> 0, ratioIntegral |-> 0,
    src |-> "null" ]

InitRecord ==
  [ started |-> FALSE, volumeChannels |-> 0, volume |-> ZeroVolume,
    mute |-> FALSE, stride |-> 0, lastChannels |-> 0, lastSampleRate |-> 0 ]

\* The backend: open between setup() and stop(), running between start() and
\* stop(); streams counts the setup() calls.
InitDevice ==
  [ open |-> FALSE, running |-> FALSE, recording |-> FALSE, streams |-> 0 ]

\* fn: the engine function a thread is in or was last in; cb: the backend
\* callbacks it has made; a pull also keeps the frames it was asked for, and
\* a source period the target latency its estimator used
NoCalls == [t \in Threads |-> [fn |-> "none", cb |-> <<>>]]

(***************************************************************************)
(* malloc/free of the scratch buffers: a pointer is "null", "live" or      *)
(* "freed" (dangling).                                                     *)
(***************************************************************************)
Fault(w, f) == [w EXCEPT !.faults = @ \cup {f}]

\* free(p): the faults of freeing p
FreeFaults(p) == IF p = "freed" THEN {"double_free"} ELSE {}

\* p = <new value>: the faults of overwriting p
StoreFaults(p) == IF p = "live" THEN {"leak"} ELSE {}

Freed(p) == IF p = "null" THEN "null" ELSE "freed"

(***************************************************************************)
(* The backend's callbacks, as seen from the engine.                       *)
(***************************************************************************)
Call(w, t, c) == [w EXCEPT !.calls[t].cb = Append(@, c)]

Enter(w, t, fn) == [w EXCEPT !.calls[t] = [fn |-> fn, cb |-> <<>>]]

\* the device thread enters playbackPullFrames, asked for so many frames
EnterPull(w, frames) ==
  [w EXCEPT !.calls["device"] =
     [fn |-> "playbackPullFrames", cb |-> <<>>, frames |-> frames]]

dev_playback_stop(w, t) ==
  LET w1 == Call(w, t, [op |-> "stop"])
  IN  [w1 EXCEPT !.device.open = FALSE, !.device.running = FALSE,
                 !.faults = @ \cup (IF w.device.open THEN {} ELSE {"stop_closed"})]

dev_playback_setup(w, t, maxPeriodFrames) ==
  LET w1 == Call(w, t, [op |-> "setup"])
  IN  [w1 EXCEPT !.device.open = TRUE, !.device.running = FALSE,
                 !.device.streams = @ + 1,
                 !.playback.deviceMaxPeriodFrames = maxPeriodFrames,
                 !.faults = @ \cup (IF w.device.open THEN {"setup_open"} ELSE {})]

dev_playback_start(w, t) ==
  LET w1 == Call(w, t, [op |-> "start", count |-> w.playback.buffer.count])
  IN  [w1 EXCEPT !.device.running = TRUE,
                 !.faults = @ \cup (IF w.device.open THEN {} ELSE {"start_closed"})]

dev_playback_volume(w, t, channels, volume) ==
  Call(w, t, [op |-> "volume", volume |-> [i \in 1..channels |-> volume[i]]])

dev_playback_mute(w, t, mute) == Call(w, t, [op |-> "mute", mute |-> mute])

(***************************************************************************)
(* playbackStop (audio.c 182-206), in its steps.                           *)
(***************************************************************************)
\* 187: audio.playback.state = STREAM_STATE_STOP
playbackStop_setState(w) == [w EXCEPT !.playback.state = STREAM_STATE_STOP]

\* 188: audio.audioDev->playback.stop()
playbackStop_devStop(w, t) == dev_playback_stop(w, t)

\* 189-205: the frees
playbackStop_free(w) ==
  LET sd == w.spiceData
      pb == w.playback
      hasIn == sd.framesIn # "null"
  IN  [w EXCEPT
        !.playback.buffer = NullRing,
        !.playback.deviceTiming = NullQueue,
        !.spiceData.src = "null",
        !.spiceData.framesIn = "null",
        !.spiceData.framesOut = IF hasIn THEN "null" ELSE @,
        !.playback.timings = "null",
        !.faults = @ \cup
          (IF pb.buffer.ptr = "null" THEN {"teardown_twice"} ELSE {}) \cup
          (IF hasIn THEN FreeFaults(sd.framesIn) \cup FreeFaults(sd.framesOut)
                    ELSE {})]

playbackStop(w, t) ==
  IF w.playback.state = STREAM_STATE_STOP
    THEN w
    ELSE playbackStop_free(playbackStop_devStop(playbackStop_setState(w), t))

(***************************************************************************)
(* The ring buffers (common/ringbuffer.c).  The coupling buffer is         *)
(* unbounded: its count is write position minus read position, and a      *)
(* negative count (a seek backwards) moves the position back.              *)
(***************************************************************************)
ringbuffer_newUnbounded(stream) == [ptr |-> "live", count |-> 0, stream |-> stream]

ringbuffer_new == [ptr |-> "live", q |-> <<>>, pushed |-> <<>>]

ringbuffer_getCount(rb) == rb.count

\* ringbuffer_append(audio.playback.buffer, values, count)
buffer_append(w, count) ==
  IF w.playback.buffer.ptr = "live"
    THEN [w EXCEPT !.playback.buffer.count = @ + count]
    ELSE Fault(w, "buffer_use_after_free")

\* ringbuffer_consume(audio.playback.buffer, values, count)
buffer_consume(w, count) ==
  IF w.playback.buffer.ptr = "live"
    THEN [w EXCEPT !.playback.buffer.count = @ - count]
    ELSE Fault(w, "buffer_use_after_free")

\* the last two of the ticks appended with this one
LastTwo(pushed, tick) ==
  IF pushed = <<>> THEN <<tick>> ELSE <<pushed[Len(pushed)], tick>>

\* ringbuffer_append(audio.playback.deviceTiming, &tick, 1): a full queue
\* takes no more
timing_append(w, tick) ==
  IF w.playback.deviceTiming.ptr = "live"
    THEN IF Len(w.playback.deviceTiming.q) < TIMING_LEN
           THEN [w EXCEPT !.playback.deviceTiming.q = Append(@, tick),
                          !.playback.deviceTiming.pushed = LastTwo(@, tick)]
           ELSE Fault(w, "timing_overflow")
    ELSE Fault(w, "timing_use_after_free")

(***************************************************************************)
(* playbackPullFrames (audio.c 208-288), in its steps.                     *)
(***************************************************************************)
\* a device clock that a change of period size moves on by the new period
DeviceClockNewPeriod(dd, frames, now, sampleRate) ==
  IF frames # dd.periodFrames
    THEN LET newPeriodSec == PeriodSec(frames, sampleRate)
             init         == dd.periodFrames = 0
         IN  [dd EXCEPT
               !.nextTime     = IF init THEN now + newPeriodSec
                                        ELSE @ + newPeriodSec,
               !.periodFrames = frames,
               !.periodSec    = newPeriodSec,
               !.nextPosition = @ + frames,
               !.b            = LoopB(newPeriodSec),
               !.c            = LoopC(newPeriodSec)]
    ELSE LET error == now - dd.nextTime
         IN  IF SlewNeeded(error)
               THEN LET slewFrames == SlewFrames(error, sampleRate)
                        periodSec  == PeriodSec(frames, sampleRate)
                    IN  [dd EXCEPT
                          !.periodSec    = periodSec,
                          !.nextTime     = now + periodSec,
                          !.nextPosition = @ + slewFrames + frames]
               ELSE [dd EXCEPT
                      !.nextTime     = @ + RoundDiv(dd.b * error, Q) + dd.periodSec,
                      !.periodSec    = @ + RoundDiv(dd.c * error, Q),
                      !.nextPosition = @ + frames]

\* a device clock that does not count the frames of a pull of a new size
DeviceClockPeriodUncounted(dd, frames, now, sampleRate) ==
  IF frames # dd.periodFrames
    THEN [DeviceClockNewPeriod(dd, frames, now, sampleRate) EXCEPT
           !.nextPosition = dd.nextPosition]
    ELSE DeviceClockNewPeriod(dd, frames, now, sampleRate)

\* 220-268: the device clock
DeviceClock(dd, frames, now, sampleRate) ==
  IF frames # dd.periodFrames
    THEN LET newPeriodSec == PeriodSec(frames, sampleRate)
             init         == dd.periodFrames = 0
         IN  [dd EXCEPT
               !.nextTime     = IF init THEN now + newPeriodSec
                                        ELSE @ + dd.periodSec,
               !.periodFrames = frames,
               !.periodSec    = newPeriodSec,
               !.nextPosition = @ + frames,
               !.b            = LoopB(newPeriodSec),
               !.c            = LoopC(newPeriodSec)]
    ELSE LET error == now - dd.nextTime
         IN  IF SlewNeeded(error)
               THEN LET slewFrames == SlewFrames(error, sampleRate)
                        periodSec  == PeriodSec(frames, sampleRate)
                    IN  [dd EXCEPT
                          !.periodSec    = periodSec,
                          !.nextTime     = now + periodSec,
                          !.nextPosition = @ + slewFrames + frames]
               ELSE [dd EXCEPT
                      !.nextTime     = @ + RoundDiv(dd.b * error, Q) + dd.periodSec,
                      !.periodSec    = @ + RoundDiv(dd.c * error, Q),
                      !.nextPosition = @ + frames]

\* the frames the slew branch (255) discards from the ring; 0 on another branch
DeviceSlew(dd, frames, now, sampleRate) ==
  IF frames = dd.periodFrames /\ SlewNeeded(now - dd.nextTime)
    THEN SlewFrames(now - dd.nextTime, sampleRate)
    ELSE 0

\* 217-279 with the buffer present: clock, slew, tick, consume
playbackPullFrames_body(w, frames, now) ==
  LET dd   == DeviceClock(w.deviceData, frames, now, w.playback.sampleRate)
      slew == DeviceSlew(w.deviceData, frames, now, w.playback.sampleRate)
      w1   == IF slew # 0 THEN buffer_consume(w, slew) ELSE w
      w2   == [w1 EXCEPT !.deviceData = dd]
      tick == [periodFrames |-> dd.periodFrames, nextTime |-> dd.nextTime,
               nextPosition |-> dd.nextPosition]
  IN  buffer_consume(timing_append(w2, tick), frames)

\* a drain test that does not look at the ring
DrainDueAnyCount(w) == w.playback.state = STREAM_STATE_DRAIN

\* 283-284: the drain test; ringbuffer_getCount reads through the pointer
DrainDue(w) ==
  /\ w.playback.state = STREAM_STATE_DRAIN
  /\ ringbuffer_getCount(w.playback.buffer) <= 0

playbackPullFrames(w, frames, now) ==
  IF frames = 0
    THEN w
    ELSE LET w0 == [w EXCEPT !.clock = now]
             w1 == IF w0.playback.buffer.ptr # "null"
                     THEN playbackPullFrames_body(w0, frames, now)
                     ELSE w0
         IN  IF DrainDue(w1) THEN playbackStop(w1, "device") ELSE w1

(***************************************************************************)
(* audio_init, audio_free (audio.c 140-165).                               *)
(***************************************************************************)
\* ok[i]: whether LG_AudioDevs[i]->init() succeeds; the first that does is used
audio_init(w, ok) ==
  IF \E i \in DOMAIN LG_AudioDevs : ok[i]
    THEN [w EXCEPT !.audioDev =
           LG_AudioDevs[CHOOSE i \in DOMAIN LG_AudioDevs :
                          ok[i] /\ \A j \in 1..(i - 1) : ~ok[j]]]
    ELSE w

\* 681-688
audio_recordStop(w, t) ==
  IF w.audioDev = NoDev \/ ~w.record.started
    THEN w
    ELSE [Call(w, t, [op |-> "record.stop"]) EXCEPT
           !.device.recording = FALSE, !.record.started = FALSE]

audio_free(w) ==
  IF w.audioDev = NoDev
    THEN w
    ELSE LET w1 == audio_recordStop(playbackStop(w, "spice"), "spice")
         IN  [Call(w1, "spice", [op |-> "free"]) EXCEPT !.audioDev = NoDev]

(***************************************************************************)
(* audio_playbackStart (audio.c 290-355), in its steps.                    *)
(***************************************************************************)
\* 304-305: src_new; srcOk is whether it succeeds
playbackStart_srcNew(w, srcOk) ==
  [w EXCEPT !.spiceData.src = IF srcOk THEN "live" ELSE "null",
            !.faults = @ \cup StoreFaults(w.spiceData.src)]

\* the buffers and the positions only: the estimator keeps what it had
playbackStart_allocKeepEstimator(w, channels, sampleRate) ==
  [w EXCEPT
    !.playback.buffer       = ringbuffer_newUnbounded(w.device.streams + 1),
    !.playback.deviceTiming = ringbuffer_new,
    !.playback.channels     = channels,
    !.playback.sampleRate   = sampleRate,
    !.playback.stride       = channels * 4,
    !.playback.state        = STREAM_STATE_SETUP,
    !.deviceData.periodFrames = 0,
    !.deviceData.nextPosition = 0,
    !.spiceData.periodFrames  = 0,
    !.spiceData.nextPosition  = 0,
    !.faults = @ \cup (IF w.playback.buffer.ptr = "live" THEN {"leak"} ELSE {})]

\* 312-332: the buffers and the reset of the stream's fields
playbackStart_alloc(w, channels, sampleRate) ==
  [w EXCEPT
    !.playback.buffer       = ringbuffer_newUnbounded(w.device.streams + 1),
    !.playback.deviceTiming = ringbuffer_new,
    !.playback.channels     = channels,
    !.playback.sampleRate   = sampleRate,
    !.playback.stride       = channels * 4,
    !.playback.state        = STREAM_STATE_SETUP,
    !.deviceData.periodFrames      = 0,
    !.deviceData.nextPosition      = 0,
    !.spiceData.periodFrames        = 0,
    !.spiceData.nextPosition        = 0,
    !.spiceData.devLastTime         = INT64_MIN,
    !.spiceData.devNextTime         = INT64_MIN,
    !.spiceData.offsetError         = 0,
    !.spiceData.offsetErrorIntegral = 0,
    !.spiceData.ratioIntegral       = 0,
    !.faults = @ \cup (IF w.playback.buffer.ptr = "live" THEN {"leak"} ELSE {})]

\* 334-354: setup(), the cached volume and mute, the timing graph
playbackStart_setup(w, maxPeriodFrames) ==
  LET w1 == dev_playback_setup(
              [w EXCEPT !.playback.deviceMaxPeriodFrames = 0],
              "spice", maxPeriodFrames)
      w2 == IF w1.playback.volumeChannels # 0
              THEN dev_playback_volume(w1, "spice",
                     w1.playback.volumeChannels, w1.playback.volume)
              ELSE w1
      w3 == IF w2.audioDev.mute
              THEN dev_playback_mute(w2, "spice", w2.playback.mute)
              ELSE w2
  IN  [w3 EXCEPT !.playback.timings = "live",
                 !.playback.state   = STREAM_STATE_SETUP]

\* a start that goes on without a resampler
audio_playbackStartWithoutSrc(w, channels, sampleRate, srcOk, maxPeriodFrames) ==
  IF w.audioDev = NoDev
    THEN w
    ELSE LET w1 == IF w.playback.state # STREAM_STATE_STOP
                     THEN playbackStop(w, "spice")
                     ELSE w
         IN  playbackStart_setup(
               playbackStart_alloc(playbackStart_srcNew(w1, srcOk),
                                   channels, sampleRate),
               maxPeriodFrames)

audio_playbackStart(w, channels, sampleRate, srcOk, maxPeriodFrames) ==
  IF w.audioDev = NoDev
    THEN w
    ELSE LET w1 == IF w.playback.state # STREAM_STATE_STOP
                     THEN playbackStop(w, "spice")
                     ELSE w
             w2 == playbackStart_srcNew(w1, srcOk)
         IN  IF w2.spiceData.src = "null"
               THEN w2
               ELSE playbackStart_setup(
                      playbackStart_alloc(w2, channels, sampleRate),
                      maxPeriodFrames)

(***************************************************************************)
(* audio_playbackStop, audio_playbackVolume, audio_playbackMute            *)
(* (audio.c 357-393).                                                      *)
(***************************************************************************)
\* 362
playbackStop_drain(w) == [w EXCEPT !.playback.state = STREAM_STATE_DRAIN]

audio_playbackStop(w) ==
  IF w.audioDev = NoDev \/ w.playback.state = STREAM_STATE_STOP
    THEN w
    ELSE playbackStop_drain(w)

\* a memcpy that copies nothing
CopyVolumeNone(dst, volume, channels) == dst

\* memcpy(dst, volume, sizeof(uint16_t) * channels)
CopyVolume(dst, volume, channels) ==
  [i \in 1..VOLUME_LEN |-> IF i <= channels THEN volume[i] ELSE dst[i]]

audio_playbackVolume(w, nChannels, volume) ==
  IF w.audioDev = NoDev \/ ~w.audioDev.volume
    THEN w
    ELSE LET channels == Min(VOLUME_LEN, nChannels)
             w1 == [w EXCEPT
                     !.playback.volume = CopyVolume(@, volume, channels),
                     !.playback.volumeChannels = channels]
         IN  IF ~STREAM_ACTIVE(w1.playback.state)
               THEN w1
               ELSE dev_playback_volume(w1, "spice", channels, volume)

audio_playbackMute(w, mute) ==
  IF w.audioDev = NoDev \/ ~w.audioDev.mute
    THEN w
    ELSE LET w1 == [w EXCEPT !.playback.mute = mute]
         IN  IF ~STREAM_ACTIVE(w1.playback.state)
               THEN w1
               ELSE dev_playback_mute(w1, "spice", mute)

(***************************************************************************)
(* audio_playbackData (audio.c 395-635), in its steps.                     *)
(***************************************************************************)
\* 412-437: the scratch buffers, up to and without the playbackStop() of a
\* failed malloc; okIn, okOut: whether each malloc succeeds
data_malloc(w, frames, okIn, okOut) ==
  LET sd == w.spiceData
  IN  IF frames = sd.periodFrames
        THEN w
        ELSE LET hasIn == sd.framesIn # "null"
                 in1   == IF hasIn THEN Freed(sd.framesIn) ELSE sd.framesIn
                 out1  == IF hasIn THEN Freed(sd.framesOut) ELSE sd.framesOut
                 f1    == IF hasIn THEN FreeFaults(sd.framesIn) \cup
                                        FreeFaults(sd.framesOut)
                                   ELSE {}
                 w1    == [w EXCEPT
                            !.spiceData.periodFrames = frames,
                            !.spiceData.framesIn  = IF okIn THEN "live" ELSE "null",
                            !.spiceData.framesOut = out1,
                            !.faults = @ \cup f1 \cup StoreFaults(in1)]
             IN  IF ~okIn
                   THEN w1
                   ELSE [w1 EXCEPT
                          !.spiceData.framesOutSize = RoundDiv(frames * 11, 10),
                          !.spiceData.framesOut = IF okOut THEN "live" ELSE "null",
                          !.faults = @ \cup StoreFaults(out1)]

\* only a failed malloc of framesIn is noticed
AllocInFails(w, frames, okIn, okOut) ==
  frames # w.spiceData.periodFrames /\ ~okIn

\* 421, 431: a malloc of this call failed
AllocFails(w, frames, okIn, okOut) ==
  frames # w.spiceData.periodFrames /\ (~okIn \/ ~okOut)

\* a tick is stored as the last one too: the pair is not shifted
RECURSIVE ConsumeTicksNoShift(_, _)
ConsumeTicksNoShift(sd, q) ==
  IF q = <<>>
    THEN sd
    ELSE LET deviceTick == Head(q)
         IN  ConsumeTicksNoShift(
               [sd EXCEPT !.devPeriodFrames = deviceTick.periodFrames,
                          !.devLastTime     = deviceTick.nextTime,
                          !.devLastPosition = deviceTick.nextPosition,
                          !.devNextTime     = deviceTick.nextTime,
                          !.devNextPosition = deviceTick.nextPosition],
               Tail(q))

\* 444-451: receive the device ticks
RECURSIVE ConsumeTicks(_, _)
ConsumeTicks(sd, q) ==
  IF q = <<>>
    THEN sd
    ELSE LET deviceTick == Head(q)
         IN  ConsumeTicks(
               [sd EXCEPT !.devPeriodFrames = deviceTick.periodFrames,
                          !.devLastTime     = sd.devNextTime,
                          !.devLastPosition = sd.devNextPosition,
                          !.devNextTime     = deviceTick.nextTime,
                          !.devNextPosition = deviceTick.nextPosition],
               Tail(q))

\* an if for the while: one tick is received in a call
data_ticksOne(w) ==
  IF w.playback.deviceTiming.ptr = "live"
    THEN IF w.playback.deviceTiming.q = <<>>
           THEN w
           ELSE [w EXCEPT
                  !.spiceData = ConsumeTicks(@, <<Head(w.playback.deviceTiming.q)>>),
                  !.playback.deviceTiming.q = Tail(@)]
    ELSE Fault(w, "timing_use_after_free")

data_ticks(w) ==
  IF w.playback.deviceTiming.ptr = "live"
    THEN [w EXCEPT !.spiceData = ConsumeTicks(@, w.playback.deviceTiming.q),
                   !.playback.deviceTiming.q = <<>>]
    ELSE Fault(w, "timing_use_after_free")

\* 456-498: the Spice clock
SpiceSlew(sd, frames, periodChanged, now, sampleRate) ==
  IF ~periodChanged /\ SlewNeeded(now - sd.nextTime)
    THEN SlewFrames(now - sd.nextTime, sampleRate)
    ELSE 0

CurTime(sd, periodChanged, init, now) ==
  IF periodChanged
    THEN IF init THEN now ELSE sd.nextTime
    ELSE IF SlewNeeded(now - sd.nextTime) THEN now ELSE sd.nextTime

CurPosition(sd, frames, periodChanged, now, sampleRate) ==
  sd.nextPosition + SpiceSlew(sd, frames, periodChanged, now, sampleRate)

SpiceClock(sd, frames, periodChanged, init, now, sampleRate) ==
  IF periodChanged
    THEN LET periodSec == PeriodSec(frames, sampleRate)
         IN  [sd EXCEPT
               !.nextTime  = (IF init THEN now ELSE @) + periodSec,
               !.periodSec = periodSec,
               !.b         = LoopB(periodSec),
               !.c         = LoopC(periodSec)]
    ELSE LET error == now - sd.nextTime
         IN  IF SlewNeeded(error)
               THEN LET periodSec == PeriodSec(frames, sampleRate)
                    IN  [sd EXCEPT
                          !.periodSec    = periodSec,
                          !.nextTime     = now + periodSec,
                          !.nextPosition = @ + SlewFrames(error, sampleRate)]
               ELSE [sd EXCEPT
                      !.nextTime  = @ + RoundDiv(sd.b * error, Q) + sd.periodSec,
                      !.periodSec = @ + RoundDiv(sd.c * error, Q)]

\* a target without the transitional correction
TargetLatencyFramesOfMaxPeriod(sampleRate, deviceMaxPeriodFrames, devPeriodFrames) ==
  RoundDiv(SPICE_JITTER_MS * sampleRate * Q, 1000)
    + RoundDiv(deviceMaxPeriodFrames * 11 * Q, 10)

\* 522-562: the target latency in frames, scaled by Q
TargetLatencyFrames(sampleRate, deviceMaxPeriodFrames, devPeriodFrames) ==
  RoundDiv(SPICE_JITTER_MS * sampleRate * Q, 1000)
    + RoundDiv(deviceMaxPeriodFrames * 11 * Q, 10)
    + (IF devPeriodFrames < deviceMaxPeriodFrames
         THEN (deviceMaxPeriodFrames - devPeriodFrames) * Q
         ELSE 0)

\* 505-571: the offset estimator; offsetError and its integral are scaled by Q
SpiceOffset(sd, curTime, curPosition, sampleRate, deviceMaxPeriodFrames) ==
  IF sd.devLastTime = INT64_MIN \/ sd.devNextTime = sd.devLastTime
    THEN sd
    ELSE LET devPosition ==
               sd.devLastPosition * Q +
                 RoundDiv((sd.devNextPosition - sd.devLastPosition) *
                            (curTime - sd.devLastTime) * Q,
                          sd.devNextTime - sd.devLastTime)
             targetLatencyFrames ==
               TargetLatencyFrames(sampleRate, deviceMaxPeriodFrames,
                                   sd.devPeriodFrames)
             actualOffset      == curPosition * Q - devPosition
             actualOffsetError == -(actualOffset - targetLatencyFrames)
             error             == actualOffsetError - sd.offsetError
         IN  [sd EXCEPT
               !.offsetError = @ + RoundDiv(sd.b * error, Q)
                                 + sd.offsetErrorIntegral,
               !.offsetErrorIntegral = @ + RoundDiv(sd.c * error, Q)]

\* 523-562: the call of the Spice thread has computed targetLatencyFrames
NoteTarget(w, targetLatencyFrames) ==
  [w EXCEPT !.calls["spice"] =
     [fn |-> @.fn, cb |-> @.cb, target |-> targetLatencyFrames]]

\* 444-581: ticks, clock, slew, offset, ratio integral
data_measure(w, frames, periodChanged, init, now) ==
  LET w1   == data_ticks(w)
      sd   == w1.spiceData
      rate == w1.playback.sampleRate
      slew == SpiceSlew(sd, frames, periodChanged, now, rate)
      w2   == IF slew # 0 THEN buffer_append(w1, slew) ELSE w1
      sd1  == SpiceClock(sd, frames, periodChanged, init, now, rate)
      sd2  == SpiceOffset(sd1, CurTime(sd, periodChanged, init, now),
                          CurPosition(sd, frames, periodChanged, now, rate),
                          rate, w1.playback.deviceMaxPeriodFrames)
      w3   == IF sd1.devLastTime # INT64_MIN
                THEN NoteTarget(w2, TargetLatencyFrames(rate,
                       w1.playback.deviceMaxPeriodFrames, sd1.devPeriodFrames))
                ELSE w2
  IN  [w3 EXCEPT
        !.spiceData = [sd2 EXCEPT !.ratioIntegral =
                        @ + RoundDiv(sd.offsetError * sd1.periodSec, ClockHz)],
        !.faults = @ \cup
          (IF sd1.devLastTime # INT64_MIN /\ sd1.devNextTime = sd1.devLastTime
             THEN {"offset_not_finite"} ELSE {})]

\* 583: the call of the Spice thread has reached the resampler loop
NoteLoop(w) ==
  [w EXCEPT !.calls["spice"] = [src |-> <<>>] @@ @]

\* 598: the call of the Spice thread has run src_process, with this result
NoteRun(w, srcData) ==
  [w EXCEPT !.calls["spice"] = [src |-> Append(@.src, srcData)] @@ @]

\* a loop that runs the resampler once
ResampleLoopOnce(w, frames, consumed, runs) ==
  IF consumed >= frames \/ runs = <<>>
    THEN w
    ELSE LET srcData == Head(runs)
             w1      == NoteRun(w, srcData)
         IN  IF srcData.error
               THEN w1
               ELSE [buffer_append(w1, srcData.output_frames_gen) EXCEPT
                      !.spiceData.nextPosition = @ + srcData.output_frames_gen]

\* 584-611: the body of the loop, run while consumed < frames
RECURSIVE ResampleLoop(_, _, _, _)
ResampleLoop(w, frames, consumed, runs) ==
  IF consumed >= frames \/ runs = <<>>
    THEN w
    ELSE LET srcData == Head(runs)
             w1      == NoteRun(w, srcData)
         IN  IF srcData.error
               THEN w1
               ELSE ResampleLoop(
                      [buffer_append(w1, srcData.output_frames_gen) EXCEPT
                        !.spiceData.nextPosition = @ + srcData.output_frames_gen],
                      frames, consumed + srcData.input_frames_used, Tail(runs))

\* 583-611: the resampler loop over the results of the src_process runs
data_resample(w, frames, consumed, runs) ==
  ResampleLoop(NoteLoop(w), frames, consumed, runs)

\* 600-604: a run of the loop reports an error
ResampleFails(runs) == \E i \in DOMAIN runs : runs[i].error

\* a gate of two source periods and one device period
StartDueOneDevicePeriod(w) ==
  /\ w.playback.state = STREAM_STATE_SETUP
  /\ w.spiceData.nextPosition >=
       w.spiceData.periodFrames * 2 + w.playback.deviceMaxPeriodFrames

\* 620-622
StartDue(w) ==
  /\ w.playback.state = STREAM_STATE_SETUP
  /\ w.spiceData.nextPosition >=
       w.spiceData.periodFrames * 2 + w.playback.deviceMaxPeriodFrames * 2

\* 623
data_start(w) == dev_playback_start(w, "spice")

\* 624
data_run(w) == [w EXCEPT !.playback.state = STREAM_STATE_RUN]

\* 628-634: the latency sample pushed to the timing graph
data_graph(w) ==
  IF w.playback.timings = "live" THEN w ELSE Fault(w, "timings_use_after_free")

\* a period is taken in DRAIN as well
audio_playbackDataInDrain(w, size, now, okIn, okOut, runs) ==
  IF w.audioDev = NoDev \/ size = 0
    THEN w
    ELSE IF w.playback.state = STREAM_STATE_STOP
      THEN w
      ELSE LET spiceStride   == w.playback.channels * 2
               frames        == size \div spiceStride
               periodChanged == frames # w.spiceData.periodFrames
               init          == w.spiceData.periodFrames = 0
               w1 == data_malloc([w EXCEPT !.clock = now], frames, okIn, okOut)
               w2 == data_measure(w1, frames, periodChanged, init, now)
           IN  data_graph(data_resample(w2, frames, 0, runs))

audio_playbackData(w, size, now, okIn, okOut, runs) ==
  IF w.audioDev = NoDev \/ size = 0
    THEN w
    ELSE IF ~STREAM_ACTIVE(w.playback.state)
      THEN w
      ELSE LET spiceStride   == w.playback.channels * 2
               frames        == size \div spiceStride
               periodChanged == frames # w.spiceData.periodFrames
               init          == w.spiceData.periodFrames = 0
               w1 == data_malloc([w EXCEPT !.clock = now], frames, okIn, okOut)
               w2 == data_measure(w1, frames, periodChanged, init, now)
               w3 == data_resample(w2, frames, 0, runs)
               w4 == IF StartDue(w3) THEN data_run(data_start(w3)) ELSE w3
           IN  IF AllocFails(w, frames, okIn, okOut)
                 THEN playbackStop(w1, "spice")
                 ELSE IF ResampleFails(runs) THEN w3 ELSE data_graph(w4)

(***************************************************************************)
(* The record path (audio.c 647-717).                                      *)
(***************************************************************************)
\* a record start that does not look for a backend
audio_recordStartAnyDev(w, channels, sampleRate) ==
  [Call(w, "spice", [op |-> "record.start"]) EXCEPT
    !.record.lastChannels   = channels,
    !.record.lastSampleRate = sampleRate,
    !.record.started        = TRUE,
    !.record.stride         = channels * 2,
    !.device.recording      = TRUE]

audio_recordStart(w, channels, sampleRate) ==
  IF w.audioDev = NoDev
    THEN w
    ELSE LET same == channels = w.record.lastChannels /\
                     sampleRate = w.record.lastSampleRate
             w1 == IF w.record.started /\ ~same
                     THEN Call(w, "spice", [op |-> "record.stop"])
                     ELSE w
             w2 == Call([w1 EXCEPT !.record.lastChannels   = channels,
                                   !.record.lastSampleRate = sampleRate,
                                   !.record.started        = TRUE,
                                   !.record.stride         = channels * 2,
                                   !.device.recording      = TRUE],
                        "spice", [op |-> "record.start"])
             w3 == IF w2.record.volumeChannels # 0
                     THEN Call(w2, "spice",
                            [op |-> "record.volume",
                             volume |-> [i \in 1..w2.playback.volumeChannels |->
                                           w2.playback.volume[i]]])
                     ELSE w2
             w4 == IF w3.audioDev.recordMute
                     THEN Call(w3, "spice",
                            [op |-> "record.mute", mute |-> w3.playback.mute])
                     ELSE w3
         IN  IF w.record.started /\ same THEN w ELSE w4

audio_recordVolume(w, nChannels, volume) ==
  IF w.audioDev = NoDev \/ ~w.audioDev.recordVolume
    THEN w
    ELSE LET channels == Min(VOLUME_LEN, nChannels)
             w1 == [w EXCEPT
                     !.record.volume = CopyVolume(@, volume, channels),
                     !.record.volumeChannels = channels]
         IN  IF ~w1.record.started
               THEN w1
               ELSE Call(w1, "spice",
                      [op |-> "record.volume",
                       volume |-> [i \in 1..channels |-> volume[i]]])

audio_recordMute(w, mute) ==
  IF w.audioDev = NoDev \/ ~w.audioDev.recordMute
    THEN w
    ELSE LET w1 == [w EXCEPT !.record.mute = mute]
         IN  IF ~w1.record.started
               THEN w1
               ELSE Call(w1, "spice", [op |-> "record.mute", mute |-> mute])

(***************************************************************************)
(* The state machine.                                                      *)
(***************************************************************************)
Commit(w) ==
  /\ audioDev'   = w.audioDev
  /\ playback'   = w.playback
  /\ deviceData' = w.deviceData
  /\ spiceData'  = w.spiceData
  /\ record'     = w.record
  /\ device'     = w.device
  /\ clock'      = w.clock
  /\ calls'      = w.calls
  /\ faults'     = w.faults

\* what the caller last gave to audio_playbackVolume and audio_playbackMute of
\* an engine with a backend; <<>> while nothing was given
NoneSubmitted == [volume |-> <<>>, mute |-> <<>>]

Idle == [t \in Threads |-> "idle"]

\* a thread's locals: the frames and the time of its call, where its
\* playbackStop() returns to, and the stream it found due to be drained
NoLocal ==
  [t \in Threads |-> [frames |-> 0, now |-> 0, ret |-> "idle", stream |-> 0]]

Init ==
  /\ audioDev   = NoDev
  /\ playback   = InitPlayback
  /\ deviceData = InitDeviceData
  /\ spiceData  = InitSpiceData
  /\ record     = InitRecord
  /\ device     = InitDevice
  /\ clock      = 0
  /\ calls      = NoCalls
  /\ faults     = {}
  /\ irregular  = 0
  /\ submitted  = NoneSubmitted
  /\ pc         = Idle
  /\ local      = NoLocal

\* nanotime(): monotonic
Now == clock .. Min(clock + MaxDelta, MaxClock)

\* the results src_process can give for one period: each run uses some of the
\* input left and generates at most framesOutSize frames, or fails
SrcData(frames, framesOutSize) ==
  [input_frames_used : 0..frames, output_frames_gen : 0..framesOutSize,
   error : {FALSE}]
    \cup {[input_frames_used |-> 0, output_frames_gen |-> 0, error |-> TRUE]}

RECURSIVE Used(_)
Used(runs) ==
  IF runs = <<>> THEN 0 ELSE Head(runs).input_frames_used + Used(Tail(runs))

\* the sequences of results that take the loop of 584-611 to its end
Runs(frames, framesOutSize) ==
  { runs \in UNION { [1..n -> SrcData(frames, framesOutSize)] : n \in 1..MaxRuns } :
      /\ \A i \in 1..(Len(runs) - 1) :
           ~runs[i].error /\ Used(SubSeq(runs, 1, i)) < frames
      /\ Used(runs) <= frames
      /\ runs[Len(runs)].error \/ Used(runs) = frames }

\* the tracker's position and wake-up time stay within the model's bounds
InBounds(tracker) ==
  /\ Abs(tracker.nextPosition) < MaxPos
  /\ tracker.periodFrames # 0 => tracker.nextTime <= MaxClock + MaxDelta

\* The nominal schedule: a call comes when its tracker expects it (or now,
\* when that time has passed), a period has the size of the one before, and
\* the resampler turns a period into as many frames in one run.  A run of the
\* model leaves this schedule at most MaxIrregular times: by a call off its
\* time, a change of period size or another result of the resampler.  A
\* failing allocation is not counted.
NominalNow(tracker) ==
  IF tracker.periodFrames = 0 THEN clock ELSE Max(clock, tracker.nextTime)

NominalRuns(frames) ==
  <<[input_frames_used |-> frames, output_frames_gen |-> frames,
     error |-> FALSE]>>

Cost(offSchedule) == IF offSchedule THEN 1 ELSE 0

Spend(n) ==
  /\ irregular + n <= MaxIrregular
  /\ irregular' = irregular + n

DoInit ==
  /\ audioDev = NoDev
  /\ \E ok \in [DOMAIN LG_AudioDevs -> BOOLEAN] :
       Commit(audio_init(Enter(World, "spice", "audio_init"), ok))
  /\ UNCHANGED <<irregular, submitted, pc, local>>

DoFree ==
  /\ Commit(audio_free(Enter(World, "spice", "audio_free")))
  /\ UNCHANGED <<irregular, submitted, pc, local>>

DoPlaybackStart ==
  /\ device.streams < MaxStreams
  /\ \E channels \in Channels, sampleRate \in Rates, srcOk \in BOOLEAN,
        maxPeriodFrames \in MaxPeriods :
       /\ Commit(audio_playbackStart(
                   Enter(World, "spice", "audio_playbackStart"),
                   channels, sampleRate, srcOk, maxPeriodFrames))
  /\ UNCHANGED <<irregular, submitted, pc, local>>

DoPlaybackStop ==
  /\ Commit(audio_playbackStop(Enter(World, "spice", "audio_playbackStop")))
  /\ UNCHANGED <<irregular, submitted, pc, local>>

DoPlaybackVolume ==
  /\ \E volume \in VolumeInputs :
       /\ Commit(audio_playbackVolume(
                   Enter(World, "spice", "audio_playbackVolume"),
                   Len(volume), volume))
       /\ submitted' = IF audioDev = NoDev THEN submitted
                       ELSE [submitted EXCEPT !.volume = volume]
  /\ UNCHANGED <<irregular, pc, local>>

DoPlaybackMute ==
  /\ \E mute \in BOOLEAN :
       /\ Commit(audio_playbackMute(
                   Enter(World, "spice", "audio_playbackMute"), mute))
       /\ submitted' = IF audioDev = NoDev THEN submitted
                       ELSE [submitted EXCEPT !.mute = <<mute>>]
  /\ UNCHANGED <<irregular, pc, local>>

\* the bytes of a source period of so many frames (s16 samples)
SizeOf(frames) == frames * (CHOOSE channels \in Channels : TRUE) * 2

\* one call of audio_playbackData that returns at 397-401
PlaybackDataDropped(frames) ==
  /\ frames = 0 \/ audioDev = NoDev \/ ~STREAM_ACTIVE(playback.state)
  /\ Commit(audio_playbackData(Enter(World, "spice", "audio_playbackData"),
              SizeOf(frames), clock, TRUE, TRUE, <<>>))
  /\ UNCHANGED <<irregular, submitted, pc, local>>

DoPlaybackDataDropped == \E frames \in {0} \cup SpiceFrames : PlaybackDataDropped(frames)

\* one call of audio_playbackData on an active stream
PlaybackData(frames, now, okIn, okOut, runs) ==
  /\ audioDev # NoDev
  /\ STREAM_ACTIVE(playback.state)
  /\ Spend(Cost(frames # spiceData.periodFrames /\ spiceData.periodFrames # 0)
           + Cost(now # NominalNow(spiceData))
           + Cost(runs # NominalRuns(frames)))
  /\ Commit(audio_playbackData(Enter(World, "spice", "audio_playbackData"),
              SizeOf(frames), now, okIn, okOut, runs))
  /\ UNCHANGED <<submitted, pc, local>>

DoPlaybackData ==
  /\ audioDev # NoDev
  /\ STREAM_ACTIVE(playback.state)
  /\ InBounds(spiceData)
  /\ \E frames \in SpiceFrames, now \in Now, okIn \in BOOLEAN,
        okOut \in BOOLEAN :
       \* a malloc that is not reached succeeds
       /\ frames = spiceData.periodFrames => okIn /\ okOut
       /\ ~okIn => okOut
       /\ \E runs \in Runs(frames, RoundDiv(frames * 11, 10)) :
            \* a resampler that is not reached does not fail
            /\ ~(okIn /\ okOut) => runs = NominalRuns(frames)
            /\ PlaybackData(frames, now, okIn, okOut, runs)

\* one call of playbackPullFrames by the running device
Pull(frames, now) ==
  /\ device.running
  /\ Spend(Cost(frames # 0 /\ frames # deviceData.periodFrames /\
                deviceData.periodFrames # 0)
           + Cost(frames # 0 /\ now # NominalNow(deviceData)))
  /\ Commit(playbackPullFrames(EnterPull(World, frames), frames, now))
  /\ UNCHANGED <<submitted, pc, local>>

\* the backend calls playbackPullFrames while the device runs, for at most
\* deviceMaxPeriodFrames frames
DoPull ==
  /\ device.running
  /\ InBounds(deviceData)
  /\ \E frames \in {0} \cup DeviceFrames, now \in Now :
       /\ frames <= playback.deviceMaxPeriodFrames
       /\ frames = 0 => now = clock
       /\ Pull(frames, now)

DoRecordStart ==
  /\ \E channels \in Channels, sampleRate \in Rates :
       Commit(audio_recordStart(Enter(World, "spice", "audio_recordStart"),
                channels, sampleRate))
  /\ UNCHANGED <<irregular, submitted, pc, local>>

DoRecordStop ==
  /\ Commit(audio_recordStop(Enter(World, "spice", "audio_recordStop"), "spice"))
  /\ UNCHANGED <<irregular, submitted, pc, local>>

DoRecordVolume ==
  /\ \E volume \in VolumeInputs :
       Commit(audio_recordVolume(Enter(World, "spice", "audio_recordVolume"),
                Len(volume), volume))
  /\ UNCHANGED <<irregular, submitted, pc, local>>

DoRecordMute ==
  /\ \E mute \in BOOLEAN :
       Commit(audio_recordMute(Enter(World, "spice", "audio_recordMute"), mute))
  /\ UNCHANGED <<irregular, submitted, pc, local>>

\* the stream: its life cycle, the source's periods and the device's pulls
Next ==
  \/ DoInit
  \/ DoFree
  \/ DoPlaybackStart
  \/ DoPlaybackStop
  \/ DoPlaybackDataDropped
  \/ DoPlaybackData
  \/ DoPull

Spec == Init /\ [][Next]_vars

\* the control calls: volume, mute and the record path, around the life cycle
NextControl ==
  \/ DoInit
  \/ DoFree
  \/ DoPlaybackStart
  \/ DoPlaybackStop
  \/ DoPlaybackDataDropped
  \/ DoPlaybackVolume
  \/ DoPlaybackMute
  \/ DoRecordStart
  \/ DoRecordStop
  \/ DoRecordVolume
  \/ DoRecordMute

SpecControl == Init /\ [][NextControl]_vars

\* One stream over a longer time: a period or a pull comes at the time its
\* tracker expects it or, at most MaxIrregular times in a run, up to MaxLate
\* later; the allocations and the resampler succeed, and the source and the
\* device may change their period size at any call.
StartOnTime ==
  /\ audioDev # NoDev
  /\ device.streams = 0
  /\ \E channels \in Channels, sampleRate \in Rates,
        maxPeriodFrames \in MaxPeriods :
       Commit(audio_playbackStart(Enter(World, "spice", "audio_playbackStart"),
                channels, sampleRate, TRUE, maxPeriodFrames))
  /\ UNCHANGED <<irregular, submitted, pc, local>>

\* the times a call of a tracker may come at
Timely(tracker) ==
  {now \in NominalNow(tracker) .. (NominalNow(tracker) + MaxLate) :
     now <= MaxTime}

DataOnTime ==
  /\ audioDev # NoDev
  /\ STREAM_ACTIVE(playback.state)
  /\ \E frames \in SpiceFrames, now \in Timely(spiceData) :
       /\ Spend(Cost(now # NominalNow(spiceData)))
       /\ Commit(audio_playbackData(
                   Enter(World, "spice", "audio_playbackData"),
                   SizeOf(frames), now, TRUE, TRUE, NominalRuns(frames)))
  /\ UNCHANGED <<submitted, pc, local>>

PullOnTime ==
  /\ device.running
  /\ \E frames \in DeviceFrames, now \in Timely(deviceData) :
       /\ frames <= playback.deviceMaxPeriodFrames
       /\ Spend(Cost(now # NominalNow(deviceData)))
       /\ Commit(playbackPullFrames(EnterPull(World, frames), frames, now))
  /\ UNCHANGED <<submitted, pc, local>>

NextTiming ==
  \/ DoInit
  \/ StartOnTime
  \/ DataOnTime
  \/ PullOnTime

SpecTiming == Init /\ [][NextTiming]_vars

\* One stream that is left to drain: the source delivers its periods on time
\* up to the time MaxSource, but for one stall of MaxStall after which it
\* goes on (and slews); the stream is stopped by audio_playbackStop and the
\* device pulls, on time, until the stream is stopped.
DataAfterStall ==
  /\ audioDev # NoDev
  /\ STREAM_ACTIVE(playback.state)
  /\ \E frames \in SpiceFrames, stall \in {0, MaxStall} :
       /\ spiceData.periodFrames \in {0, frames}
       /\ NominalNow(spiceData) + stall <= MaxSource
       /\ Spend(Cost(stall # 0))
       /\ Commit(audio_playbackData(
                   Enter(World, "spice", "audio_playbackData"),
                   SizeOf(frames), NominalNow(spiceData) + stall, TRUE, TRUE,
                   NominalRuns(frames)))
  /\ UNCHANGED <<submitted, pc, local>>

PullDue ==
  /\ device.running
  /\ NominalNow(deviceData) <= MaxDrain
  /\ \E frames \in DeviceFrames :
       /\ frames <= playback.deviceMaxPeriodFrames
       /\ deviceData.periodFrames \in {0, frames}
       /\ Commit(playbackPullFrames(EnterPull(World, frames), frames,
                   NominalNow(deviceData)))
  /\ UNCHANGED <<irregular, submitted, pc, local>>

NextDrain ==
  \/ DoInit
  \/ StartOnTime
  \/ DataAfterStall
  \/ DoPlaybackStop
  \/ PullDue

SpecDrain == Init /\ [][NextDrain]_vars

(***************************************************************************)
(* The two threads step by step.  The Spice thread makes the engine calls, *)
(* the device thread runs playbackPullFrames; a step is one access to the  *)
(* state the threads share (audio.playback.state, the buffers, the         *)
(* backend), and there is no lock.  The calls keep to the nominal schedule *)
(* and their allocations succeed.                                          *)
(***************************************************************************)
At(t, where) == pc[t] = where

Goto(t, where) == pc' = [pc EXCEPT ![t] = where]

\* the device thread's teardown meets another stream than the one it found
\* drained
Newer(t) ==
  IF /\ t = "device"
     /\ playback.buffer.ptr = "live"
     /\ playback.buffer.stream # local[t].stream
    THEN {"teardown_newer"}
    ELSE {}

WithFaults(w, f) == [w EXCEPT !.faults = @ \cup f]

\* 184: playbackStop() reads the state
StopTest(t) ==
  /\ At(t, "playbackStop")
  /\ Goto(t, IF playback.state = STREAM_STATE_STOP
               THEN local[t].ret ELSE "playbackStop_setState")
  /\ UNCHANGED <<audioDev, playback, deviceData, spiceData, record, device,
                 clock, calls, faults, irregular, submitted, local>>

\* 187
StopSetState(t) ==
  /\ At(t, "playbackStop_setState")
  /\ Commit(WithFaults(playbackStop_setState(World), Newer(t)))
  /\ Goto(t, "playbackStop_devStop")
  /\ UNCHANGED <<irregular, submitted, local>>

\* 188
StopDevStop(t) ==
  /\ At(t, "playbackStop_devStop")
  /\ Commit(WithFaults(playbackStop_devStop(World, t), Newer(t)))
  /\ Goto(t, "playbackStop_free")
  /\ UNCHANGED <<irregular, submitted, local>>

\* 189-205
StopFree(t) ==
  /\ At(t, "playbackStop_free")
  /\ Commit(WithFaults(playbackStop_free(World), Newer(t)))
  /\ Goto(t, local[t].ret)
  /\ UNCHANGED <<irregular, submitted, local>>

\* 293-301: audio_playbackStart reads the state
StartTest ==
  /\ At("spice", "idle")
  /\ audioDev # NoDev
  /\ device.streams < MaxStreams
  /\ Commit(Enter(World, "spice", "audio_playbackStart"))
  /\ Goto("spice", IF playback.state # STREAM_STATE_STOP
                     THEN "playbackStop" ELSE "playbackStart_srcNew")
  /\ local' = [local EXCEPT !["spice"].ret = "playbackStart_srcNew"]
  /\ UNCHANGED <<irregular, submitted>>

\* 304-310
StartSrcNew ==
  /\ At("spice", "playbackStart_srcNew")
  /\ Commit(playbackStart_srcNew(World, TRUE))
  /\ Goto("spice", "playbackStart_alloc")
  /\ UNCHANGED <<irregular, submitted, local>>

\* 312-332
StartAlloc ==
  /\ At("spice", "playbackStart_alloc")
  /\ \E channels \in Channels, sampleRate \in Rates :
       Commit(playbackStart_alloc(World, channels, sampleRate))
  /\ Goto("spice", "playbackStart_setup")
  /\ UNCHANGED <<irregular, submitted, local>>

\* 334-354
StartSetup ==
  /\ At("spice", "playbackStart_setup")
  /\ \E maxPeriodFrames \in MaxPeriods :
       Commit(playbackStart_setup(World, maxPeriodFrames))
  /\ Goto("spice", "idle")
  /\ UNCHANGED <<irregular, submitted, local>>

\* 359: audio_playbackStop reads the state
StopRequestTest ==
  /\ At("spice", "idle")
  /\ audioDev # NoDev
  /\ Commit(Enter(World, "spice", "audio_playbackStop"))
  /\ Goto("spice", IF playback.state = STREAM_STATE_STOP
                     THEN "idle" ELSE "playbackStop_drain")
  /\ UNCHANGED <<irregular, submitted, local>>

\* 362
StopRequestDrain ==
  /\ At("spice", "playbackStop_drain")
  /\ Commit(playbackStop_drain(World))
  /\ Goto("spice", "idle")
  /\ UNCHANGED <<irregular, submitted, local>>

\* 397-410: audio_playbackData reads the state and the clock
DataTest ==
  /\ At("spice", "idle")
  /\ audioDev # NoDev
  /\ STREAM_ACTIVE(playback.state)
  /\ InBounds(spiceData)
  /\ NominalNow(spiceData) <= MaxClock
  /\ \E frames \in SpiceFrames :
       /\ spiceData.periodFrames \in {0, frames}
       /\ local' = [local EXCEPT !["spice"].frames = frames,
                                 !["spice"].now = NominalNow(spiceData),
                                 !["spice"].ret = "idle"]
  /\ Commit([Enter(World, "spice", "audio_playbackData") EXCEPT
              !.clock = NominalNow(spiceData)])
  /\ Goto("spice", "data_measure")
  /\ UNCHANGED <<irregular, submitted>>

\* 412-611: the scratch buffers, the ticks, the clock and the resampler
DataMeasure ==
  /\ At("spice", "data_measure")
  /\ LET frames == local["spice"].frames
         w1 == data_malloc(World, frames, TRUE, TRUE)
         w2 == data_measure(w1, frames, frames # spiceData.periodFrames,
                            spiceData.periodFrames = 0, local["spice"].now)
     IN  Commit(data_resample(w2, frames, 0, NominalRuns(frames)))
  /\ Goto("spice", "data_start")
  /\ UNCHANGED <<irregular, submitted, local>>

\* 613-623: the start gate reads the state and starts the device
DataStart ==
  /\ At("spice", "data_start")
  /\ IF StartDue(World)
       THEN Commit(data_start(World)) /\ Goto("spice", "data_run")
       ELSE Commit(data_graph(World)) /\ Goto("spice", "idle")
  /\ UNCHANGED <<irregular, submitted, local>>

\* 624-634
DataRun ==
  /\ At("spice", "data_run")
  /\ Commit(data_graph(data_run(World)))
  /\ Goto("spice", "idle")
  /\ UNCHANGED <<irregular, submitted, local>>

\* 208-215: a pull of the running device reads the clock
PullEnter ==
  /\ At("device", "idle")
  /\ device.running
  /\ InBounds(deviceData)
  /\ NominalNow(deviceData) <= MaxClock
  /\ \E frames \in DeviceFrames :
       /\ frames <= playback.deviceMaxPeriodFrames
       /\ deviceData.periodFrames \in {0, frames}
       /\ local' = [local EXCEPT !["device"].frames = frames,
                                 !["device"].now = NominalNow(deviceData)]
       /\ Commit([EnterPull(World, frames) EXCEPT
                   !.clock = NominalNow(deviceData)])
  /\ Goto("device", "playbackPull_test")
  /\ UNCHANGED <<irregular, submitted>>

\* 217: the pull reads the pointer to the stream's buffer
PullTest ==
  /\ At("device", "playbackPull_test")
  /\ Goto("device", IF playback.buffer.ptr # "null"
                      THEN "playbackPull_body" ELSE "playbackPull_drain")
  /\ UNCHANGED <<audioDev, playback, deviceData, spiceData, record, device,
                 clock, calls, faults, irregular, submitted, local>>

\* 218-279: the clock, the tick, the frames
PullFrames ==
  /\ At("device", "playbackPull_body")
  /\ Commit(playbackPullFrames_body(World, local["device"].frames,
                                    local["device"].now))
  /\ Goto("device", "playbackPull_drain")
  /\ UNCHANGED <<irregular, submitted, local>>

\* 283-285: the drain test reads the state and the ring's count
PullDrainTest ==
  /\ At("device", "playbackPull_drain")
  /\ Goto("device", IF DrainDue(World) THEN "playbackStop" ELSE "idle")
  /\ local' = [local EXCEPT !["device"].ret = "idle",
                            !["device"].stream = playback.buffer.stream]
  /\ UNCHANGED <<audioDev, playback, deviceData, spiceData, record, device,
                 clock, calls, faults, irregular, submitted>>

NextConc ==
  \/ DoInit
  \/ StartTest
  \/ StartSrcNew
  \/ StartAlloc
  \/ StartSetup
  \/ StopRequestTest
  \/ StopRequestDrain
  \/ DataTest
  \/ DataMeasure
  \/ DataStart
  \/ DataRun
  \/ PullEnter
  \/ PullTest
  \/ PullFrames
  \/ PullDrainTest
  \/ \E t \in Threads : StopTest(t)
  \/ \E t \in Threads : StopSetState(t)
  \/ \E t \in Threads : StopDevStop(t)
  \/ \E t \in Threads : StopFree(t)

SpecConc == Init /\ [][NextConc]_vars

(***************************************************************************)
(* The claims.                                                             *)
(***************************************************************************)
\* the callbacks of one kind a thread made in its last call
Made(t, op) == {i \in DOMAIN calls[t].cb : calls[t].cb[i].op = op}

\* the last call of the Spice thread was audio_playbackStart and it restarted:
\* it tore a stream down and set a new one up
Restarted ==
  /\ calls["spice"].fn = "audio_playbackStart"
  /\ \E i \in Made("spice", "stop") : \E j \in Made("spice", "setup") : i < j

\* a volume vector as the engine keeps it: its first VOLUME_LEN channels
Truncated(volume) == SubSeq(volume, 1, Min(VOLUME_LEN, Len(volume)))

\* C1: start gating.  Whenever the backend's playback.start() is invoked,
\* the coupling buffer holds, at that moment, at least two source periods
\* and two maximal device periods of frames: the count the ring had when
\* start() was called is at least 2 * periodFrames + 2 *
\* deviceMaxPeriodFrames, after any sequence of periods, slews and pulls.
C1_StartGating ==
  \A t \in Threads : \A i \in Made(t, "start") :
    calls[t].cb[i].count >=
      2 * spiceData.periodFrames + 2 * playback.deviceMaxPeriodFrames

\* a period of the source has just started the device
C1_Started ==
  /\ playback.state = STREAM_STATE_RUN
  /\ calls["spice"].fn = "audio_playbackData"
  /\ Made("spice", "start") # {}

\* C2: lifecycle monotonicity.  Every change of the playback state is
\* STOP->SETUP, SETUP->RUN, RUN->DRAIN, DRAIN->STOP, or a teardown to STOP
\* from SETUP, RUN or DRAIN (a restart then goes on from STOP to SETUP within
\* the same call); DRAIN is entered only from RUN and RUN only from SETUP.
C2_Lifecycle ==
  [][ \/ playback'.state = playback.state
      \/ playback.state = STREAM_STATE_STOP  /\ playback'.state = STREAM_STATE_SETUP
      \/ playback.state = STREAM_STATE_SETUP /\ playback'.state = STREAM_STATE_RUN
      \/ playback.state = STREAM_STATE_RUN   /\ playback'.state = STREAM_STATE_DRAIN
      \/ playback.state # STREAM_STATE_STOP  /\ playback'.state = STREAM_STATE_STOP
      \/ /\ playback.state # STREAM_STATE_STOP
         /\ playback'.state = STREAM_STATE_SETUP
         /\ Restarted'
    ]_vars

\* C3: audio_playbackData in STOP or DRAIN is dropped with no effect.  A call
\* with a period of at least one frame made while the state is STOP or DRAIN
\* leaves the state, the coupling buffer, the tick queue, both clock
\* trackers, the estimator and the scratch buffers as they were and makes no
\* backend callback.
C3_DroppedData ==
  [][ \A frames \in SpiceFrames :
        ( /\ audioDev # NoDev
          /\ playback.state \in {STREAM_STATE_STOP, STREAM_STATE_DRAIN}
          /\ PlaybackDataDropped(frames) )
        => /\ UNCHANGED <<playback, deviceData, spiceData, device, faults>>
           /\ calls'["spice"] = [fn |-> "audio_playbackData", cb |-> <<>>]
    ]_vars

\* a period arrived for a draining stream that has frames in its ring and a
\* tick waiting in the queue
C3_DroppedInDrain ==
  /\ playback.state = STREAM_STATE_DRAIN
  /\ calls["spice"] = [fn |-> "audio_playbackData", cb |-> <<>>]
  /\ playback.buffer.count > 0
  /\ playback.deviceTiming.q # <<>>

\* C4: drain completes.  A stream in DRAIN reaches STOP through the pull
\* path, and pulls come only from a device that was started: so a stream in
\* DRAIN has its device running, else it remains in DRAIN for ever.
C4_DrainIsPulled ==
  playback.state = STREAM_STATE_DRAIN => device.running

\* C5: single stream / restart.  setup() is never invoked on a backend whose
\* stream was not stopped; a call of audio_playbackStart made in SETUP, RUN
\* or DRAIN first stops the backend and releases the old ring, tick queue,
\* resampler and scratch buffers (nothing is overwritten while it is live),
\* and when it succeeds it has called setup() after stop() and returns in
\* SETUP with both trackers and the estimator reset.
C5_Restart ==
  /\ []("setup_open" \notin faults)
  /\ [][ ( /\ DoPlaybackStart
           /\ audioDev # NoDev
           /\ playback.state # STREAM_STATE_STOP )
         => /\ 1 \in Made("spice", "stop")'
            /\ Made("spice", "stop")' = {1}
            /\ faults' = faults
            /\ spiceData'.src # "live" =>
                 /\ playback'.state = STREAM_STATE_STOP
                 /\ playback'.buffer = NullRing
                 /\ playback'.deviceTiming = NullQueue
                 /\ spiceData'.framesIn # "live"
                 /\ spiceData'.framesOut # "live"
            /\ spiceData'.src = "live" =>
                 /\ Made("spice", "setup")' = {2}
                 /\ playback'.state = STREAM_STATE_SETUP
                 /\ playback'.buffer = ringbuffer_newUnbounded(device'.streams)
                 /\ playback'.deviceTiming = ringbuffer_new
                 /\ spiceData'.framesIn # "live"
                 /\ spiceData'.framesOut # "live"
                 /\ deviceData'.periodFrames = 0
                 /\ deviceData'.nextPosition = 0
                 /\ spiceData'.periodFrames = 0
                 /\ spiceData'.nextPosition = 0
                 /\ spiceData'.devLastTime = INT64_MIN
                 /\ spiceData'.offsetError = 0
                 /\ spiceData'.offsetErrorIntegral = 0
                 /\ spiceData'.ratioIntegral = 0
       ]_vars

\* a running stream whose estimator had run was restarted
C5_RestartedSecond ==
  /\ Restarted
  /\ playback.state = STREAM_STATE_SETUP
  /\ device.streams = 2
  /\ spiceData.devLastPosition > 0

\* C6: the transition to STOP is idempotent and race-safe.  Under every
\* interleaving of the device thread's drain stop with the Spice thread's
\* audio_playbackStop, audio_playbackStart and audio_playbackData, the
\* teardown of playbackStop runs once per stream (stop() is not called on a
\* stopped backend and nothing is released twice), it does not meet a newer
\* stream than the one found drained, and the state never goes from STOP to
\* DRAIN.
C6_RaceSafeStop ==
  /\ [](faults \cap {"stop_closed", "teardown_twice", "teardown_newer"} = {})
  /\ [][~( /\ playback.state = STREAM_STATE_STOP
           /\ playback'.state = STREAM_STATE_DRAIN )]_vars

\* C7: volume/mute caching.  An audio_playbackStart that reaches the
\* backend's setup() then gives the backend, once each, the volume vector
\* last submitted to audio_playbackVolume (its first 8 channels at most), if
\* one was submitted, and the mute flag last submitted to audio_playbackMute,
\* whatever the state was when they were submitted.
C7_VolumeMuteCached ==
  ( /\ calls["spice"].fn = "audio_playbackStart"
    /\ Made("spice", "setup") # {} )
  => LET cb == calls["spice"].cb
     IN  /\ submitted.volume # <<>> =>
               \E j \in Made("spice", "volume") :
                 /\ Made("spice", "volume") = {j}
                 /\ \A i \in Made("spice", "setup") : i < j
                 /\ cb[j].volume = Truncated(submitted.volume)
         /\ submitted.mute # <<>> =>
               \E j \in Made("spice", "mute") :
                 /\ Made("spice", "mute") = {j}
                 /\ \A i \in Made("spice", "setup") : i < j
                 /\ cb[j].mute = submitted.mute[1]

\* the first stream was set up with a volume vector of more than VOLUME_LEN
\* channels and a mute flag, both submitted in STOP
C7_AppliedAtRestart ==
  /\ calls["spice"].fn = "audio_playbackStart"
  /\ device.streams = 1
  /\ Len(submitted.volume) > VOLUME_LEN
  /\ submitted.mute = <<TRUE>>
  /\ Made("spice", "volume") # {}
  /\ Made("spice", "mute") # {}

\* C8: no backend.  While no backend is selected the playback state is STOP
\* and record.started is false, and every engine call made then changes
\* nothing: the playback and record state with the cached volume and mute
\* values stay as they are and no backend callback is invoked.
C8_NoBackend ==
  /\ [](audioDev = NoDev =>
          playback.state = STREAM_STATE_STOP /\ ~record.started)
  /\ [][ (audioDev = NoDev /\ audioDev' = NoDev)
         => /\ UNCHANGED <<playback, deviceData, spiceData, record, device,
                           faults>>
            /\ \A t \in Threads : calls'[t].cb = <<>> \/ calls'[t] = calls[t]
       ]_vars

\* audio_recordStart was called after the engine, which had set up a stream,
\* was freed
C8_CalledAfterFree ==
  /\ audioDev = NoDev
  /\ calls["spice"].fn = "audio_recordStart"
  /\ device.streams > 0

\* C9: resampler init failure.  When src_new fails in audio_playbackStart
\* the call returns with the state STOP, whatever the state was before,
\* with no coupling buffer and no tick queue allocated and without a call
\* of the backend's setup(), volume() or mute().
C9_SrcNewFails ==
  ( /\ calls["spice"].fn = "audio_playbackStart"
    /\ audioDev # NoDev
    /\ spiceData.src = "null" )
  => /\ playback.state = STREAM_STATE_STOP
     /\ playback.buffer = NullRing
     /\ playback.deviceTiming = NullQueue
     /\ \A i \in DOMAIN calls["spice"].cb : calls["spice"].cb[i].op = "stop"

\* src_new failed in the restart of a stream
C9_FailedRestart ==
  /\ calls["spice"].fn = "audio_playbackStart"
  /\ audioDev # NoDev
  /\ spiceData.src = "null"
  /\ Made("spice", "stop") # {}

\* C10: scratch allocation failure.  No scratch buffer is ever freed twice
\* or overwritten while live; and a call of audio_playbackData in which the
\* malloc of framesIn or of framesOut fails returns with the state STOP,
\* after one stop() of the backend, with the ring, the tick queue and the
\* resampler released, no scratch buffer left allocated, and nothing
\* appended to the coupling buffer.
C10_AllocFails ==
  /\ [](faults \cap {"double_free", "leak"} = {})
  /\ [][ \A frames \in SpiceFrames, now \in Now, okIn, okOut \in BOOLEAN :
           ( /\ ~(okIn /\ okOut)
             /\ frames # spiceData.periodFrames
             /\ PlaybackData(frames, now, okIn, okOut, NominalRuns(frames)) )
           => /\ playback'.state = STREAM_STATE_STOP
              /\ calls'["spice"].cb = <<[op |-> "stop"]>>
              /\ ~device'.open
              /\ playback'.buffer = NullRing
              /\ playback'.deviceTiming = NullQueue
              /\ spiceData'.src = "null"
              /\ spiceData'.framesIn # "live"
              /\ spiceData'.framesOut # "live"
       ]_vars

\* a change of the period size of a running stream failed to allocate
C10_AbortedRunning ==
  /\ calls["spice"] = [fn |-> "audio_playbackData", cb |-> <<[op |-> "stop"]>>]
  /\ playback.state = STREAM_STATE_STOP
  /\ spiceData.framesOut = "freed"
  /\ deviceData.periodFrames # 0

\* C11: resampler runtime error.  A call of audio_playbackData in which a run
\* of src_process reports an error leaves the state as it was (SETUP or
\* RUN), calls neither start() nor stop() nor any other backend callback,
\* tears nothing down, and adds none of the period's frames to the coupling
\* buffer or to the source's nextPosition: both move by the silence of a
\* slew only.
C11_ResampleFails ==
  [][ \A frames \in SpiceFrames, now \in Now :
        \A runs \in Runs(frames, RoundDiv(frames * 11, 10)) :
          ( /\ ResampleFails(runs)
            /\ clock' = now
            /\ PlaybackData(frames, now, TRUE, TRUE, runs) )
          => LET slew == SpiceSlew(spiceData, frames,
                                   frames # spiceData.periodFrames, now,
                                   playback.sampleRate)
             IN  /\ playback'.state = playback.state
                 /\ calls'["spice"].cb = <<>>
                 /\ device' = device
                 /\ playback'.buffer.ptr = "live"
                 /\ playback'.deviceTiming.ptr = "live"
                 /\ spiceData'.src = "live"
                 /\ spiceData'.framesIn = "live"
                 /\ spiceData'.framesOut = "live"
                 /\ playback'.buffer.count = playback.buffer.count + slew
                 /\ spiceData'.nextPosition = spiceData.nextPosition + slew
    ]_vars

\* C12: the state and the backend.  In every reachable state RUN or DRAIN
\* implies that the backend's start() has been invoked for the current
\* stream, since its setup(), and stop() has not been invoked since; SETUP
\* implies that the stream is set up and start() has not yet been invoked
\* for it.
C12_StateMatchesBackend ==
  /\ playback.state \in {STREAM_STATE_RUN, STREAM_STATE_DRAIN} =>
       device.open /\ device.running
  /\ playback.state = STREAM_STATE_SETUP =>
       device.open /\ ~device.running

\* the frames left in the ring after a pull has discarded its slew and
\* consumed the frames it was asked for; a pull of no frames measures no
\* clock and consumes nothing
LeftAfterPull(frames, now) ==
  IF frames = 0
    THEN playback.buffer.count
    ELSE playback.buffer.count
           - DeviceSlew(deviceData, frames, now, playback.sampleRate) - frames

\* what C13 says of one pull of so many frames
PullStopsWhenDrained(frames, now) ==
  LET drained == /\ playback.state = STREAM_STATE_DRAIN
                 /\ LeftAfterPull(frames, now) <= 0
  IN  /\ drained =>
            /\ playback'.state = STREAM_STATE_STOP
            /\ calls'["device"].cb = <<[op |-> "stop"]>>
            /\ playback'.buffer = NullRing
      /\ ~drained =>
            /\ playback'.state = playback.state
            /\ calls'["device"].cb = <<>>
            /\ playback'.buffer.ptr = "live"
            /\ playback'.buffer.count = LeftAfterPull(frames, now)

\* C13 as stated: the pull path moves the stream to STOP if and only if,
\* after consuming the requested frames, the state is DRAIN and the count of
\* the coupling buffer is <= 0, for every pull the backend makes, one of no
\* frames included.
C13_EveryPullStopsWhenDrained ==
  [][ \A frames \in {0} \cup DeviceFrames, now \in Now :
        (clock' = now /\ Pull(frames, now)) => PullStopsWhenDrained(frames, now)
    ]_vars

\* C13, amended: a pull of at least one frame moves the stream to STOP, with
\* one stop() of the backend, if and only if the state is DRAIN and the ring
\* is left with a count <= 0 once the slew is discarded and the frames are
\* consumed; a pull in SETUP or RUN leaves the state alone even on underrun
\* and a pull in DRAIN that leaves frames keeps DRAIN, so the frames buffered
\* when audio_playbackStop was called are consumed or slewed past before the
\* backend's stop().
C13_PullStopsWhenDrained ==
  [][ \A frames \in DeviceFrames, now \in Now :
        (clock' = now /\ Pull(frames, now)) => PullStopsWhenDrained(frames, now)
    ]_vars

\* a pull has stopped a draining stream whose ring had been filled, with no
\* frame left
C13_DrainedByPull ==
  /\ calls["device"].fn = "playbackPullFrames"
  /\ calls["device"].cb = <<[op |-> "stop"]>>
  /\ calls["spice"].fn = "audio_playbackStop"
  /\ playback.state = STREAM_STATE_STOP
  /\ spiceData.nextPosition > 0
  /\ deviceData.nextPosition >= spiceData.nextPosition

\* the last two ticks the sink has pushed for the current stream
Pushed == playback.deviceTiming.pushed

\* a step is a call of audio_playbackData that was accepted and ran to the
\* clock measurement without tearing the stream down
AcceptedData ==
  /\ calls'["spice"].fn = "audio_playbackData"
  /\ spiceData' # spiceData
  /\ playback'.deviceTiming.ptr = "live"

\* C14: tick ordering.  After an accepted call of audio_playbackData the tick
\* queue is empty; if the sink has pushed at least two ticks for the current
\* stream, (devLastTime, devLastPosition) and (devNextTime, devNextPosition)
\* are the one before the last and the last tick pushed, in that order, and
\* devPeriodFrames is the last one's; and the estimator is enabled
\* (devLastTime # INT64_MIN) only with two ticks of the current stream, never
\* with one of a stream before.
C14_TickOrdering ==
  [][ AcceptedData =>
        /\ playback'.deviceTiming.q = <<>>
        /\ Len(Pushed) >= 2 =>
             /\ spiceData'.devLastTime     = Pushed[1].nextTime
             /\ spiceData'.devLastPosition = Pushed[1].nextPosition
             /\ spiceData'.devNextTime     = Pushed[2].nextTime
             /\ spiceData'.devNextPosition = Pushed[2].nextPosition
             /\ spiceData'.devPeriodFrames = Pushed[2].periodFrames
        /\ spiceData'.devLastTime # INT64_MIN => Len(Pushed) >= 2
    ]_vars

\* a period of the source has received the ticks of two pulls of its stream,
\* the estimator's pair being the last two pushed
C14_TwoTicksReceived ==
  /\ calls["spice"].fn = "audio_playbackData"
  /\ playback.deviceTiming.q = <<>>
  /\ Len(Pushed) = 2
  /\ Pushed[2].nextPosition > Pushed[1].nextPosition
  /\ spiceData.devLastTime = Pushed[1].nextTime
  /\ spiceData.devNextTime = Pushed[2].nextTime
  /\ spiceData.devLastPosition > 1

\* what an accepted call of audio_playbackData does when the sink has pushed
\* fewer than so many ticks for the stream, and when it has pushed as many:
\* it skips the estimator and leaves offsetError and offsetErrorIntegral as
\* they were, or it has the estimator enabled (devLastTime # INT64_MIN)
EstimatorEnabledFrom(ticks) ==
  /\ spiceData'.devLastTime # INT64_MIN <=> Len(Pushed) >= ticks
  /\ Len(Pushed) < ticks =>
       /\ spiceData'.offsetError = spiceData.offsetError
       /\ spiceData'.offsetErrorIntegral = spiceData.offsetErrorIntegral

\* C15 as stated: in an accepted call of audio_playbackData the offset
\* estimator runs (devLastTime # INT64_MIN) exactly when the source has
\* received at least one tick of the current stream; with no tick received
\* it is skipped and offsetError and offsetErrorIntegral stay unchanged.
C15_EnabledByOneTick ==
  [][AcceptedData => EstimatorEnabledFrom(1)]_vars

\* C15, amended: the offset estimator runs exactly when the source has
\* received at least two ticks of the current stream; with no tick or one
\* tick received it is skipped and offsetError and offsetErrorIntegral stay
\* unchanged.
C15_EnabledByTwoTicks ==
  [][AcceptedData => EstimatorEnabledFrom(2)]_vars

\* the estimator has run on the two ticks the source received and has moved
\* offsetError
C15_EstimatorRan ==
  /\ calls["spice"].fn = "audio_playbackData"
  /\ Len(Pushed) = 2
  /\ playback.deviceTiming.q = <<>>
  /\ spiceData.devLastTime # INT64_MIN
  /\ spiceData.offsetError # 0

\* the target latency in frames, scaled by Q, for a device that advertised
\* so many frames as its largest period and asked for so many in its last tick
TargetOf(sampleRate, maxPeriodFrames, periodFrames) ==
  RoundDiv(13 * sampleRate * Q, 1000) + RoundDiv(11 * maxPeriodFrames * Q, 10)
    + Max(0, maxPeriodFrames - periodFrames) * Q

\* C16: target latency policy.  Whenever the offset estimator runs, its
\* target is 13 * sampleRate / 1000 + 1.1 * deviceMaxPeriodFrames +
\* max(0, deviceMaxPeriodFrames - devPeriodFrames), devPeriodFrames being the
\* period size of the last tick the sink pushed: so the first period that
\* receives a tick pushed after the sink went from P to p < P frames has a
\* target larger by P - p, and the extra term is 0 again once a tick of the
\* largest period is received.
C16_TargetLatency ==
  [][ (AcceptedData /\ spiceData'.devLastTime # INT64_MIN) =>
        /\ "target" \in DOMAIN calls'["spice"]
        /\ spiceData'.devPeriodFrames = Pushed[Len(Pushed)].periodFrames
        /\ calls'["spice"].target =
             TargetOf(playback.sampleRate, playback.deviceMaxPeriodFrames,
                      Pushed[Len(Pushed)].periodFrames)
    ]_vars

\* the estimator has run on the tick of a pull of p frames that came after a
\* pull of P > p frames, P being the largest period, with a target larger by
\* P - p
C16_AfterReduction ==
  /\ calls["spice"].fn = "audio_playbackData"
  /\ "target" \in DOMAIN calls["spice"]
  /\ playback.deviceTiming.q = <<>>
  /\ Len(Pushed) = 2
  /\ Pushed[1].periodFrames = playback.deviceMaxPeriodFrames
  /\ Pushed[2].periodFrames < Pushed[1].periodFrames
  /\ calls["spice"].target =
       TargetOf(playback.sampleRate, playback.deviceMaxPeriodFrames,
                playback.deviceMaxPeriodFrames)
         + (Pushed[1].periodFrames - Pushed[2].periodFrames) * Q

\* a step is a pull whose period size differs from the one before, which was
\* not the first of its stream
SinkPeriodChanged ==
  /\ calls'["device"].fn = "playbackPullFrames"
  /\ deviceData.periodFrames # 0
  /\ deviceData'.periodFrames # 0
  /\ deviceData'.periodFrames # deviceData.periodFrames

\* a step is an accepted source period whose size differs from the one
\* before, which was not the first of its stream
SourcePeriodChanged ==
  /\ AcceptedData
  /\ spiceData.periodFrames # 0
  /\ spiceData'.periodFrames # 0
  /\ spiceData'.periodFrames # spiceData.periodFrames

\* a tracker has taken the new period: periodSec is frames / sampleRate and
\* (b, c) are computed from it
TookNewPeriod(old, new) ==
  /\ new.periodSec = PeriodSec(new.periodFrames, playback.sampleRate)
  /\ new.b = LoopB(new.periodSec)
  /\ new.c = LoopC(new.periodSec)

\* C17 as stated: on a change of period size that is not the first tick,
\* either tracker advances nextTime by the old periodSec, the value it held
\* before, and not by the new frames / sampleRate, whatever the time is (no
\* slew check), while periodFrames and periodSec take the new values and
\* (b, c) are recomputed from the new periodSec.
C17_BothAdvanceByOldPeriod ==
  [][ /\ SinkPeriodChanged =>
           /\ deviceData'.nextTime = deviceData.nextTime + deviceData.periodSec
           /\ TookNewPeriod(deviceData, deviceData')
      /\ SourcePeriodChanged =>
           /\ spiceData'.nextTime = spiceData.nextTime + spiceData.periodSec
           /\ TookNewPeriod(spiceData, spiceData')
    ]_vars

\* C17, amended: on a change of period size that is not the first tick, the
\* sink's tracker advances nextTime by the old periodSec and nextPosition by
\* the frames pulled, and the source's tracker advances nextTime by the new
\* periodSec (frames / sampleRate); on both, whatever the time is (no slew
\* check), periodFrames and periodSec take the new values and (b, c) are
\* recomputed from the new periodSec.
C17_SinkAdvancesByOldPeriod ==
  [][ /\ SinkPeriodChanged =>
           /\ deviceData'.nextTime = deviceData.nextTime + deviceData.periodSec
           /\ deviceData'.nextPosition =
                deviceData.nextPosition + deviceData'.periodFrames
           /\ TookNewPeriod(deviceData, deviceData')
      /\ SourcePeriodChanged =>
           /\ spiceData'.nextTime = spiceData.nextTime + spiceData'.periodSec
           /\ TookNewPeriod(spiceData, spiceData')
    ]_vars

\* the sink has gone from one period size to another in a pull that came
\* 0.2 s or more after its time: its last tick, still in the queue, is later
\* than the one before by the old period
C17_SinkChangedPeriod ==
  /\ calls["device"].fn = "playbackPullFrames"
  /\ Len(Pushed) = 2
  /\ playback.deviceTiming.q # <<>>
  /\ playback.deviceTiming.q[Len(playback.deviceTiming.q)] = Pushed[2]
  /\ 5 * (clock - Pushed[1].nextTime) >= ClockHz
  /\ Pushed[2].periodFrames # Pushed[1].periodFrames
  /\ Pushed[2] = [periodFrames |-> deviceData.periodFrames,
                  nextTime |-> deviceData.nextTime,
                  nextPosition |-> deviceData.nextPosition]
  /\ Pushed[2].nextTime =
       Pushed[1].nextTime + PeriodSec(Pushed[1].periodFrames, playback.sampleRate)
  /\ Pushed[2].nextTime #
       Pushed[1].nextTime + PeriodSec(Pushed[2].periodFrames, playback.sampleRate)

\* a step is a pull of as many frames as the pull before it
SinkSamePeriod ==
  /\ deviceData' # deviceData
  /\ deviceData.periodFrames # 0
  /\ deviceData'.periodFrames = deviceData.periodFrames

\* a step is an accepted source period of as many frames as the one before it
SourceSamePeriod ==
  /\ AcceptedData
  /\ spiceData.periodFrames # 0
  /\ spiceData'.periodFrames = spiceData.periodFrames

\* the frames a tracker slews by at a tick whose clock error is so many clock
\* units: round(error * sampleRate) from 0.2 s on, in either direction, else 0
SlewOf(error) ==
  IF 10 * Abs(error) >= 2 * ClockHz
    THEN RoundDiv(error * playback.sampleRate, ClockHz)
    ELSE 0

\* a tracker that slewed was reset: periodSec is frames / sampleRate and
\* nextTime is now + periodSec
ResetAt(now, new) ==
  /\ new.periodSec = PeriodSec(new.periodFrames, playback.sampleRate)
  /\ new.nextTime = now + new.periodSec

\* C18: slew rule.  On a tick of the same period size a tracker slews if and
\* only if |now - nextTime| >= 0.2 s, the boundary included, by slewFrames =
\* round(error * sampleRate).  The sink then discards slewFrames frames from
\* the ring besides the frames it consumes and advances nextPosition by
\* slewFrames + frames; the source appends slewFrames frames of silence and
\* advances nextPosition by them besides the frames it resamples (a period
\* yields as many frames as it has); both reset periodSec to frames /
\* sampleRate and nextTime to now + periodSec.  With |error| < 0.2 s nothing
\* is discarded or inserted.
C18_SlewRule ==
  [][ /\ SinkSamePeriod =>
           LET frames     == deviceData.periodFrames
               slewFrames == SlewOf(clock' - deviceData.nextTime)
           IN  /\ deviceData'.nextPosition =
                    deviceData.nextPosition + slewFrames + frames
               /\ playback'.buffer.ptr = "live" =>
                    playback'.buffer.count =
                      playback.buffer.count - slewFrames - frames
               /\ slewFrames # 0 => ResetAt(clock', deviceData')
      /\ SourceSamePeriod =>
           LET frames     == spiceData.periodFrames
               slewFrames == SlewOf(clock' - spiceData.nextTime)
           IN  /\ spiceData'.nextPosition =
                    spiceData.nextPosition + slewFrames + frames
               /\ playback'.buffer.count =
                    playback.buffer.count + slewFrames + frames
               /\ slewFrames # 0 => ResetAt(clock', spiceData')
    ]_vars

\* the sink has slewed at the boundary: its last pull came 0.2 s after its
\* time and its tick, still in the queue, is ahead of the one before by the
\* slew and the frames pulled
C18_SinkSlewedAtBoundary ==
  /\ calls["device"].fn = "playbackPullFrames"
  /\ Len(Pushed) = 2
  /\ playback.deviceTiming.q # <<>>
  /\ playback.deviceTiming.q[Len(playback.deviceTiming.q)] = Pushed[2]
  /\ Pushed[2].periodFrames = Pushed[1].periodFrames
  /\ 5 * (clock - Pushed[1].nextTime) = ClockHz
  /\ Pushed[2].nextPosition =
       Pushed[1].nextPosition + Pushed[2].periodFrames
         + RoundDiv((clock - Pushed[1].nextTime) * playback.sampleRate, ClockHz)
  /\ Pushed[2].nextTime =
       clock + PeriodSec(Pushed[2].periodFrames, playback.sampleRate)

\* a step is a pull that found the stream's buffer and measured its clock
PullWithBuffer ==
  /\ calls'["device"].fn = "playbackPullFrames"
  /\ deviceData' # deviceData
  /\ deviceData'.periodFrames # 0

\* the tick of the device's clock
DeviceTick ==
  [periodFrames |-> deviceData.periodFrames, nextTime |-> deviceData.nextTime,
   nextPosition |-> deviceData.nextPosition]

\* C19: tick-queue bound.  A pull that finds the stream's buffer pushes one
\* tick, the device's clock after the pull; the push finds the queue of
\* TIMING_LEN slots full only while the stream is active (SETUP or RUN) and
\* the source has stalled, no period having been accepted during the
\* TIMING_LEN pulls before; in DRAIN, after audio_playbackStop, the queue
\* holds fewer than TIMING_LEN ticks at each push.
C19_TickQueueBound ==
  [][ PullWithBuffer =>
        \/ /\ Len(playback.deviceTiming.q) < TIMING_LEN
           /\ playback'.deviceTiming.ptr = "live" =>
                playback'.deviceTiming.q =
                  Append(playback.deviceTiming.q, DeviceTick')
        \/ /\ Len(playback.deviceTiming.q) = TIMING_LEN
           /\ STREAM_ACTIVE(playback.state)
    ]_vars

\* a step is an accepted call of audio_playbackData that reached the
\* resampler loop of 583-611 and returned
ResampledData ==
  /\ AcceptedData
  /\ "src" \in DOMAIN calls'["spice"]

\* the frames that the runs of src_process generated
RECURSIVE Generated(_)
Generated(runs) ==
  IF runs = <<>>
    THEN 0
    ELSE Head(runs).output_frames_gen + Generated(Tail(runs))

\* each run but the first was made on input that the runs before had left,
\* and each run's output went to the coupling buffer and was counted in the
\* source's nextPosition, after the silence of a slew
RerunOnRemainingInput(runs, frames, now) ==
  LET slew == SpiceSlew(spiceData, frames, frames # spiceData.periodFrames,
                        now, playback.sampleRate)
  IN  /\ runs # <<>>
      /\ \A i \in 1..(Len(runs) - 1) :
           ~runs[i].error /\ Used(SubSeq(runs, 1, i)) < frames
      /\ playback'.buffer.count = playback.buffer.count + slew + Generated(runs)
      /\ spiceData'.nextPosition =
           spiceData.nextPosition + slew + Generated(runs)

C21_PositionAccounting ==
  playback.buffer.ptr = "live" =>
    playback.buffer.count = spiceData.nextPosition - deviceData.nextPosition

\* the device has pulled from the stream and the last period of the source
\* was cut short by an error of the resampler after a run that generated
\* frames
C21_AccountedAfterAbort ==
  /\ playback.buffer.ptr = "live"
  /\ deviceData.nextPosition > 0
  /\ calls["spice"].fn = "audio_playbackData"
  /\ "src" \in DOMAIN calls["spice"]
  /\ Len(calls["spice"].src) = 2
  /\ calls["spice"].src[1].output_frames_gen > 0
  /\ calls["spice"].src[2].error
  /\ playback.buffer.count = spiceData.nextPosition - deviceData.nextPosition

\* the device thread's pull found no stream buffer and goes on to its drain
\* test
PullWithoutBuffer ==
  /\ At("device", "playbackPull_test")
  /\ pc'["device"] = "playbackPull_drain"

\* C22: no use after free.  Under every interleaving of the device thread's
\* playbackPullFrames with the Spice thread's audio_playbackStart,
\* audio_playbackData and audio_playbackStop, neither thread reads or writes
\* the coupling buffer or the tick queue after the other thread's
\* playbackStop has freed them, and a pull that finds no stream buffer
\* takes no frames and pushes no tick.
C22_NoUseAfterFree ==
  /\ [](faults \cap {"buffer_use_after_free", "timing_use_after_free"} = {})
  /\ [][ PullWithoutBuffer =>
           /\ playback'.buffer = playback.buffer
           /\ playback'.deviceTiming = playback.deviceTiming
           /\ deviceData' = deviceData
       ]_vars

====
